---- MODULE Spec2Model ----
(***************************************************************************)
(* A model of py2store/core.py: prefix relativization of keys, the         *)
(* path-format key filter, and the explicit key collections.               *)
(*                                                                         *)
(* A Python str is a sequence of one-character strings.  A path format is  *)
(* a sequence of tokens: a one-character string is a literal character, a  *)
(* string of FieldTokens is one "{...}" replacement field.                 *)
(***************************************************************************)
EXTENDS Integers, Sequences, FiniteSets, TLC

VARIABLES obj, supplied, prefix_arg, call, result

vars == <<obj, supplied, prefix_arg, call, result>>

---------------------------------------------------------------------------
(* Bounds of the explored inputs.                                          *)

\* the longest key asked about
MaxLen == 2

\* the longest key inside a key collection, and the longest explicit prefix
MaxStoredLen == 1

\* the most keys in a key collection
MaxKeys == 2

MaxTemplateLen == 3

---------------------------------------------------------------------------
(* Strings.                                                                *)

file_sep == "/"

Alphabet == {file_sep, "a"}

RECURSIVE StringsOfLen(_, _)
StringsOfLen(S, n) ==
    IF n = 0 THEN {<<>>}
    ELSE {Append(s, c) : s \in StringsOfLen(S, n - 1), c \in S}

StringsUpTo(S, n) == UNION {StringsOfLen(S, i) : i \in 0..n}

\* str.startswith
startswith(s, p) == Len(p) <= Len(s) /\ SubSeq(s, 1, Len(p)) = p

\* str.endswith for a one-character suffix
endswith(s, c) == Len(s) > 0 /\ s[Len(s)] = c

\* s[n:] for n >= 0
SliceFrom(s, n) == IF n >= Len(s) THEN <<>> ELSE SubSeq(s, n + 1, Len(s))

\* s[:n] for 0 <= n
SliceTo(s, n) == IF n >= Len(s) THEN s ELSE SubSeq(s, 1, n)

---------------------------------------------------------------------------
(* ensure_slash_suffix and os.path.dirname (posixpath).                    *)

ensure_slash_suffix(path) ==
    IF ~endswith(path, file_sep) THEN path \o <<file_sep>> ELSE path

\* str.rfind(sep) + 1: the length of the head up to and including the last sep
RfindSepPlus1(p) ==
    LET I == {i \in 1..Len(p) : p[i] = file_sep}
    IN  IF I = {} THEN 0 ELSE CHOOSE i \in I : \A j \in I : j <= i

RECURSIVE rstrip_sep(_)
rstrip_sep(s) ==
    IF endswith(s, file_sep) THEN rstrip_sep(SubSeq(s, 1, Len(s) - 1)) ELSE s

\* posixpath.dirname: head = p[:rfind('/')+1]; a head that is not all
\* separators loses its trailing separators
dirname(p) ==
    LET head == SliceTo(p, RfindSepPlus1(p))
    IN  IF head # <<>> /\ (\E i \in 1..Len(head) : head[i] # file_sep)
        THEN rstrip_sep(head)
        ELSE head

---------------------------------------------------------------------------
(* PrefixRelativizationMixin: keys <-> ids around the _prefix attribute.   *)
(* The mixin works by len, + and subscripting (the class docstring): the   *)
(* id of a key is _prefix + key, the key of an id is the id sliced at the  *)
(* prefix length, with no check that the id starts with the prefix.        *)

_id_of_key(_prefix, k) == _prefix \o k

_key_of_id_short(_prefix, _id) ==
    SliceFrom(_id, IF Len(_prefix) > 0 THEN Len(_prefix) - 1 ELSE 0)

_key_of_id(_prefix, _id) == SliceFrom(_id, Len(_prefix))

\* PrefixRelativization.__init__
PrefixRelativization(_prefix) ==
    [cls |-> "PrefixRelativization", _prefix |-> _prefix]

---------------------------------------------------------------------------
(* PathFormat.                                                             *)

\* The replacement fields a path format may hold: the anonymous field "{}"
\* and two named fields.
FieldTokens == {"{}", "{rootdir}", "{relative_path}"}

Tokens == Alphabet \cup FieldTokens

IsField(tok) == tok \in FieldTokens

\* '{' in path_format
HasBrace(path_format) ==
    \E i \in 1..Len(path_format) : IsField(path_format[i])

\* re.match('[^\{]*', path_format).group(0): the text before the first '{'
LeadingLiteral(path_format) ==
    LET I == {i \in 1..Len(path_format) : IsField(path_format[i])}
    IN  IF I = {} THEN path_format
        ELSE SubSeq(path_format, 1, (CHOOSE i \in I : \A j \in I : i <= j) - 1)

\* The value domain of a field of the matching rule: a named field takes one
\* or more characters, without the separator unless its name says it may span
\* path segments; the anonymous field is the unconstrained wildcard.
SpansSeparator(field) == field \in {"{}", "{relative_path}"}

MinValueLen(field) == IF field = "{}" THEN 0 ELSE 1

ValueOK(field, v) ==
    /\ Len(v) >= MinValueLen(field)
    /\ SpansSeparator(field) \/ \A i \in 1..Len(v) : v[i] # file_sep

\* match_re_for_fstring: literal runs become literal fragments, fields become
\* wildcard fragments, the whole is one rule anchored at both ends.
match_re_for_fstring(path_pattern) ==
    [fragments |-> path_pattern, anchored_end |-> TRUE]

\* The fragments match the whole of s.
RECURSIVE FragmentsMatch(_, _)
FragmentsMatch(fragments, s) ==
    IF fragments = <<>> THEN s = <<>>
    ELSE LET f == Head(fragments)
         IN  IF IsField(f)
             THEN \E n \in 0..Len(s) :
                      /\ ValueOK(f, SliceTo(s, n))
                      /\ FragmentsMatch(Tail(fragments), SliceFrom(s, n))
             ELSE /\ s # <<>>
                  /\ Head(s) = f
                  /\ FragmentsMatch(Tail(fragments), Tail(s))

\* pattern.match(k): a match that starts at the beginning of k
re_match(pattern, k) ==
    \E n \in 0..Len(k) :
        /\ pattern.anchored_end => n = Len(k)
        /\ FragmentsMatch(pattern.fragments, SliceTo(k, n))

\* PathFormat.__init__: the root directory derived from the format
PathFormat_rootdir(path_format) ==
    IF ~HasBrace(path_format)
    THEN ensure_slash_suffix(path_format)
    ELSE ensure_slash_suffix(dirname(LeadingLiteral(path_format)))

PathFormat_path_pattern_open(path_format) == path_format \o <<"{}">>

\* PathFormat.__init__: the pattern handed to match_re_for_fstring
PathFormat_path_pattern(path_format) ==
    IF ~HasBrace(path_format)
    THEN path_format \o <<"{}">>
    ELSE path_format

\* PathFormat.__init__
PathFormat(path_format) ==
    [cls |-> "PathFormat",
     _path_format |-> path_format,
     _prefix |-> PathFormat_rootdir(path_format),
     _path_match_re |-> match_re_for_fstring(PathFormat_path_pattern(path_format))]

\* PathFormat._key_filt
_key_filt(self, k) == re_match(self._path_match_re, k)

\* PathFormat.is_valid_key
is_valid_key(self, k) == _key_filt(self, k)

---------------------------------------------------------------------------
(* ExplicitKeys.                                                           *)

\* A Python object handed in as key_collection: the special methods it has
\* and, when it can be iterated, its elements in iteration order.
CollectionCaps == {"__len__", "__iter__", "__contains__"}

\* isinstance(x, collections.abc.Collection)
isinstance_Collection(x) == CollectionCaps \subseteq x.caps

Return(v) == [kind |-> "return", value |-> v]

Raise(exc) == [kind |-> "raise", value |-> exc]

NoObject == [cls |-> "None"]

ExplicitKeys_unchecked(key_collection) ==
    Return([cls |-> "ExplicitKeys", _key_collection |-> key_collection.items])

\* ExplicitKeys.__init__
ExplicitKeys(key_collection) ==
    IF ~isinstance_Collection(key_collection)
    THEN Raise("AssertionError")
    ELSE Return([cls |-> "ExplicitKeys",
                 _key_collection |-> key_collection.items])

RECURSIVE Dedup(_)
Dedup(s) ==
    IF s = <<>> THEN <<>>
    ELSE LET d == Dedup(SubSeq(s, 1, Len(s) - 1))
         IN  IF \E i \in 1..Len(d) : d[i] = s[Len(s)] THEN d
             ELSE Append(d, s[Len(s)])

ExplicitKeys_iter_dedup(self) == Dedup(self._key_collection)

\* ExplicitKeys.__iter__: the elements, as a list in the order yielded
ExplicitKeys_iter(self) == self._key_collection

\* ExplicitKeys.__len__
ExplicitKeys_len(self) == Len(self._key_collection)

\* ExplicitKeys.__contains__
ExplicitKeys_contains(self, k) ==
    \E i \in 1..Len(self._key_collection) : self._key_collection[i] = k

---------------------------------------------------------------------------
(* ExplicitKeysWithPrefixRelativization: a Store over ExplicitKeys.        *)

\* The _prefix=None default
None == <<"None">>

\* max_common_prefix: the longest leading substring shared by every key
RECURSIVE max_common_prefix(_)
max_common_prefix(keys) ==
    IF keys = <<>> THEN <<>>
    ELSE IF \E i \in 1..Len(keys) : keys[i] = <<>> THEN <<>>
    ELSE IF \A i \in 1..Len(keys) : Head(keys[i]) = Head(keys[1])
         THEN <<Head(keys[1])>>
                  \o max_common_prefix([i \in 1..Len(keys) |-> Tail(keys[i])])
         ELSE <<>>

ExplicitKeysWithPrefixRelativization_no_inference(key_collection, _prefix) ==
    LET store == ExplicitKeys(key_collection)
    IN  IF store.kind = "raise" THEN store
        ELSE Return([cls |-> "ExplicitKeysWithPrefixRelativization",
                     _prefix |-> IF _prefix = None THEN <<>> ELSE _prefix,
                     store |-> store.value])

\* ExplicitKeysWithPrefixRelativization.__init__
ExplicitKeysWithPrefixRelativization(key_collection, _prefix) ==
    LET p == IF _prefix = None
             THEN max_common_prefix(key_collection.items)
             ELSE _prefix
        store == ExplicitKeys(key_collection)
    IN  IF store.kind = "raise" THEN store
        ELSE Return([cls |-> "ExplicitKeysWithPrefixRelativization",
                     _prefix |-> p,
                     store |-> store.value])

\* Store.__iter__: the key of every id the wrapped store yields
Store_iter(self) ==
    LET ids == ExplicitKeys_iter(self.store)
    IN  [i \in 1..Len(ids) |-> _key_of_id(self._prefix, ids[i])]

\* Store.__len__
Store_len(self) == ExplicitKeys_len(self.store)

\* Store.__contains__: the id of the key is looked up in the wrapped store
Store_contains(self, k) ==
    ExplicitKeys_contains(self.store, _id_of_key(self._prefix, k))

---------------------------------------------------------------------------
(* The inputs explored.                                                    *)

\* The strings of the documented examples
root_of_foo == <<"/", "r", "o", "o", "t", "/", "o", "f", "/", "f", "o", "o">>

root_of_bar == <<"/", "r", "o", "o", "t", "/", "o", "f", "/", "b", "a", "r">>

root_for_alice == <<"/", "r", "o", "o", "t", "/", "f", "o", "r", "/", "a", "l", "i", "c", "e">>

root_ == <<"/", "r", "o", "o", "t", "/">>

of_foo == <<"o", "f", "/", "f", "o", "o">>

of_bar == <<"o", "f", "/", "b", "a", "r">>

for_alice == <<"f", "o", "r", "/", "a", "l", "i", "c", "e">>

foo == <<"f", "o", "o">>

bar == <<"b", "a", "r">>

alice == <<"a", "l", "i", "c", "e">>

nope == <<"n", "o", "p", "e">>

a_b_c_ext == <<"a", "/", "b", "/", "c", ".", "e", "x", "t">>

a_b_c_txt == <<"a", "/", "b", "/", "c", ".", "t", "x", "t">>

a_b_c_ext_extra == <<"a", "/", "b", "/", "c", ".", "e", "x", "t", ".", "e", "x", "t", "r", "a">>

root_of == <<"/", "r", "o", "o", "t", "/", "o", "f">>

root_of_ == <<"/", "r", "o", "o", "t", "/", "o", "f", "/">>

other_ == <<"/", "o", "t", "h", "e", "r", "/">>

root_official == <<"/", "r", "o", "o", "t", "/", "o", "f", "f", "i", "c", "i", "a", "l">>

rootdir_relative_path_ext ==
    <<"{rootdir}", "/", "{relative_path}", ".", "e", "x", "t">>

Keys == StringsUpTo(Alphabet, MaxLen)

StoredKeys == StringsUpTo(Alphabet, MaxStoredLen)

\* Keys asked of a relativizer or a key collection
QueryKeys ==
    Keys \cup {root_of_foo, root_, of_foo, of_bar, for_alice, foo, nope}

\* Keys asked of a path format
PathKeys ==
    Keys \cup {a_b_c_ext, a_b_c_txt, a_b_c_ext_extra, root_of, root_of_,
               root_of_foo, root_official, other_}

ExampleCollections ==
    {<<root_of_foo, root_of_bar, root_for_alice>>, <<foo, bar, alice>>,
     <<foo, bar, foo>>}

ExampleFormats == {rootdir_relative_path_ext, root_of, root_of_}

KeyCollections == StringsUpTo(StoredKeys, MaxKeys) \cup ExampleCollections

PathFormats == StringsUpTo(Tokens, MaxTemplateLen) \cup ExampleFormats

Collection(items) == [caps |-> CollectionCaps, items |-> items]

\* Objects that are no Collection: an int, a generator, a sized iterable
\* without __contains__
NonCollections ==
    {[caps |-> {}, items |-> <<>>]}
        \cup {[caps |-> c, items |-> k] :
                c \in {{"__iter__"}, {"__len__", "__iter__"}},
                k \in StringsUpTo(StoredKeys, 1)}

InputObjects == {Collection(c) : c \in KeyCollections} \cup NonCollections

PrefixArgs == StoredKeys \cup {root_, root_of_, None}

NoInput == [caps |-> {}, items |-> <<>>]

---------------------------------------------------------------------------
(* The state machine.  A behaviour is one constructor call followed by     *)
(* calls on the object it made: obj is that object (NoObject when the      *)
(* constructor raised), supplied and prefix_arg are the key_collection and *)
(* _prefix arguments the constructor was given, call is the last call and  *)
(* result what that call returned or raised.                               *)

Init ==
    /\ obj = NoObject
    /\ supplied = NoInput
    /\ prefix_arg = None
    /\ call = [op |-> "none", arg |-> <<>>]
    /\ result = [kind |-> "none", value |-> <<>>]

NewPrefixRelativization ==
    /\ call.op = "none"
    /\ \E p \in StoredKeys \cup {root_} :
        /\ obj' = PrefixRelativization(p)
        /\ prefix_arg' = p
    /\ supplied' = NoInput
    /\ call' = [op |-> "PrefixRelativization", arg |-> <<>>]
    /\ result' = Return(<<>>)

Relativize ==
    /\ obj.cls = "PrefixRelativization"
    /\ \E k \in QueryKeys :
        /\ call' = [op |-> "_key_of_id", arg |-> k]
        /\ result' = Return(_key_of_id(obj._prefix, k))
    /\ UNCHANGED <<obj, supplied, prefix_arg>>

Derelativize ==
    /\ obj.cls = "PrefixRelativization"
    /\ \E k \in QueryKeys :
        /\ call' = [op |-> "_id_of_key", arg |-> k]
        /\ result' = Return(_id_of_key(obj._prefix, k))
    /\ UNCHANGED <<obj, supplied, prefix_arg>>

NewPathFormat ==
    /\ call.op = "none"
    /\ \E f \in PathFormats : obj' = PathFormat(f)
    /\ supplied' = NoInput
    /\ prefix_arg' = None
    /\ call' = [op |-> "PathFormat", arg |-> <<>>]
    /\ result' = Return(<<>>)

IsValidKey ==
    /\ obj.cls = "PathFormat"
    /\ \E k \in PathKeys :
        /\ call' = [op |-> "is_valid_key", arg |-> k]
        /\ result' = Return(is_valid_key(obj, k))
    /\ UNCHANGED <<obj, supplied, prefix_arg>>

NewExplicitKeys ==
    /\ call.op = "none"
    /\ \E x \in InputObjects :
        LET r == ExplicitKeys(x)
        IN  /\ obj' = IF r.kind = "return" THEN r.value ELSE NoObject
            /\ supplied' = x
            /\ result' = IF r.kind = "return" THEN Return(<<>>) ELSE r
    /\ prefix_arg' = None
    /\ call' = [op |-> "ExplicitKeys", arg |-> <<>>]

ExplicitKeysIter ==
    /\ obj.cls = "ExplicitKeys"
    /\ call' = [op |-> "ExplicitKeys.__iter__", arg |-> <<>>]
    /\ result' = Return(ExplicitKeys_iter(obj))
    /\ UNCHANGED <<obj, supplied, prefix_arg>>

ExplicitKeysLen ==
    /\ obj.cls = "ExplicitKeys"
    /\ call' = [op |-> "ExplicitKeys.__len__", arg |-> <<>>]
    /\ result' = Return(ExplicitKeys_len(obj))
    /\ UNCHANGED <<obj, supplied, prefix_arg>>

ExplicitKeysContains ==
    /\ obj.cls = "ExplicitKeys"
    /\ \E k \in QueryKeys :
        /\ call' = [op |-> "ExplicitKeys.__contains__", arg |-> k]
        /\ result' = Return(ExplicitKeys_contains(obj, k))
    /\ UNCHANGED <<obj, supplied, prefix_arg>>

\* With _prefix=None the argument goes through max_common_prefix first, which
\* is defined on collections of keys only.
NewExplicitKeysWithPrefixRelativization ==
    /\ call.op = "none"
    /\ \E x \in InputObjects, p \in PrefixArgs :
        /\ p = None => isinstance_Collection(x)
        /\ LET r == ExplicitKeysWithPrefixRelativization(x, p)
           IN  /\ obj' = IF r.kind = "return" THEN r.value ELSE NoObject
               /\ supplied' = x
               /\ prefix_arg' = p
               /\ result' = IF r.kind = "return" THEN Return(<<>>) ELSE r
    /\ call' = [op |-> "ExplicitKeysWithPrefixRelativization", arg |-> <<>>]

StoreIter ==
    /\ obj.cls = "ExplicitKeysWithPrefixRelativization"
    /\ call' = [op |-> "Store.__iter__", arg |-> <<>>]
    /\ result' = Return(Store_iter(obj))
    /\ UNCHANGED <<obj, supplied, prefix_arg>>

StoreLen ==
    /\ obj.cls = "ExplicitKeysWithPrefixRelativization"
    /\ call' = [op |-> "Store.__len__", arg |-> <<>>]
    /\ result' = Return(Store_len(obj))
    /\ UNCHANGED <<obj, supplied, prefix_arg>>

StoreContains ==
    /\ obj.cls = "ExplicitKeysWithPrefixRelativization"
    /\ \E k \in QueryKeys :
        /\ call' = [op |-> "Store.__contains__", arg |-> k]
        /\ result' = Return(Store_contains(obj, k))
    /\ UNCHANGED <<obj, supplied, prefix_arg>>

Next ==
    \/ NewPrefixRelativization
    \/ Relativize
    \/ Derelativize
    \/ NewPathFormat
    \/ IsValidKey
    \/ NewExplicitKeys
    \/ ExplicitKeysIter
    \/ ExplicitKeysLen
    \/ ExplicitKeysContains
    \/ NewExplicitKeysWithPrefixRelativization
    \/ StoreIter
    \/ StoreLen
    \/ StoreContains

Spec == Init /\ [][Next]_vars

---------------------------------------------------------------------------
(* Helpers of the properties.                                              *)

IsRelativizer == obj.cls = "PrefixRelativization"

IsPathFormat == obj.cls = "PathFormat"

IsExplicitKeys == obj.cls = "ExplicitKeys"

IsStore == obj.cls = "ExplicitKeysWithPrefixRelativization"

\* k is an element of the key sequence
ElementOf(k, keys) == \E i \in 1..Len(keys) : keys[i] = k

\* p is a leading substring of every key and no longer string is
LongestCommonLeadingSubstring(p, keys) ==
    /\ \A i \in 1..Len(keys) : startswith(keys[i], p)
    /\ keys = <<>> => p = <<>>
    /\ keys # <<>> =>
          ~\E q \in {SliceTo(keys[1], n) : n \in 0..Len(keys[1])} :
              /\ Len(q) > Len(p)
              /\ \A i \in 1..Len(keys) : startswith(keys[i], q)

\* The format with its fields replaced by values of the lengths l (a function
\* on the positions of the fields), each in its field's domain, is exactly s.
RECURSIVE SubstitutionYields(_, _, _, _)
SubstitutionYields(format, i, l, s) ==
    IF i > Len(format) THEN s = <<>>
    ELSE IF IsField(format[i])
         THEN /\ l[i] <= Len(s)
              /\ ValueOK(format[i], SliceTo(s, l[i]))
              /\ SubstitutionYields(format, i + 1, l, SliceFrom(s, l[i]))
         ELSE /\ s # <<>>
              /\ Head(s) = format[i]
              /\ SubstitutionYields(format, i + 1, l, Tail(s))

\* k is the format with some value substituted for every field
Obtainable(format, k) ==
    \E l \in [{i \in 1..Len(format) : IsField(format[i])} -> 0..Len(k)] :
        SubstitutionYields(format, 1, l, k)

---------------------------------------------------------------------------
(* The properties.                                                         *)

\* C1: for a PrefixRelativization with prefix p, the key of the id of every
\* relative key r is r again, and the id of the key of every absolute key k
\* that starts with p is k again.
C1_RoundTrip ==
    /\ (IsRelativizer /\ call.op = "_id_of_key")
          => _key_of_id(obj._prefix, result.value) = call.arg
    /\ (IsRelativizer /\ call.op = "_key_of_id"
            /\ startswith(call.arg, prefix_arg))
          => _id_of_key(obj._prefix, result.value) = call.arg

C1_Witness ==
    /\ IsRelativizer
    /\ prefix_arg = root_
    /\ call.op = "_key_of_id"
    /\ call.arg = root_of_foo
    /\ result.value = of_foo

\* C2: every key is_valid_key accepts starts with the prefix derived from the
\* same path format.
C2_AcceptedKeysStartWithPrefix ==
    (IsPathFormat /\ call.op = "is_valid_key" /\ result.value)
        => startswith(call.arg, obj._prefix)

\* C3: relativizing an absolute key that does not start with the prefix
\* raises PrefixMismatchError at that call instead of returning a truncated
\* key, also when the call is a read of a store whose explicit prefix is no
\* common prefix of its keys.
C3_MismatchRaises ==
    /\ (IsRelativizer /\ call.op = "_key_of_id"
            /\ ~startswith(call.arg, obj._prefix))
          => (result.kind = "raise" /\ result.value = "PrefixMismatchError")
    /\ (IsStore /\ call.op = "Store.__iter__"
            /\ \E i \in 1..Len(supplied.items) :
                   ~startswith(supplied.items[i], obj._prefix))
          => (result.kind = "raise" /\ result.value = "PrefixMismatchError")

C5_LiteralFormatAcceptsExactlyThePrefixed ==
    (IsPathFormat /\ ~HasBrace(obj._path_format))
        => /\ endswith(obj._prefix, file_sep)
           /\ obj._prefix \in {obj._path_format,
                               obj._path_format \o <<file_sep>>}
           /\ call.op = "is_valid_key"
                 => (result.value <=> startswith(call.arg, obj._prefix))

\* C6: a store constructed without an explicit prefix has the longest common
\* leading substring of the supplied keys as its prefix, the empty string
\* for an empty collection; the documented keys give "/root/" and the
\* relative keys "of/foo", "of/bar", "for/alice"; an empty collection gives
\* an empty iteration and length 0.
C6_InferredPrefix ==
    (IsStore /\ prefix_arg = None)
        => /\ LongestCommonLeadingSubstring(obj._prefix, supplied.items)
           /\ supplied.items = <<root_of_foo, root_of_bar, root_for_alice>>
                 => /\ obj._prefix = root_
                    /\ call.op = "Store.__iter__"
                          => result.value = <<of_foo, of_bar, for_alice>>
           /\ supplied.items = <<>>
                 => /\ obj._prefix = <<>>
                    /\ call.op = "Store.__iter__" => result.value = <<>>
                    /\ call.op = "Store.__len__" => result.value = 0

C6_Witness ==
    /\ IsStore
    /\ prefix_arg = None
    /\ supplied.items = <<root_of_foo, root_of_bar, root_for_alice>>
    /\ call.op = "Store.__iter__"
    /\ result.value = <<of_foo, of_bar, for_alice>>

\* C7: iterating any store, whether its prefix was inferred or given, yields
\* one relative key per supplied key, in the supplied order, each the
\* supplied key with the prefix stripped (the prefix put back in front gives
\* the supplied key), and the length of the store is the length of the
\* supplied collection.
C7_IterationStripsPrefix ==
    IsStore
        => /\ call.op = "Store.__iter__"
                 => /\ Len(result.value) = Len(supplied.items)
                    /\ \A i \in 1..Len(supplied.items) :
                           obj._prefix \o result.value[i] = supplied.items[i]
           /\ call.op = "Store.__len__"
                 => result.value = Len(supplied.items)

\* C8: a relative key r is in a store with prefix p exactly when p + r is an
\* element of the supplied collection, and so every key the iteration of the
\* store yields is in the store.
C8_ContainmentByPrefixedKey ==
    IsStore
        => /\ call.op = "Store.__contains__"
                 => (result.value
                        <=> ElementOf(obj._prefix \o call.arg, supplied.items))
           /\ call.op = "Store.__iter__"
                 => \A i \in 1..Len(result.value) :
                        Store_contains(obj, result.value[i])

\* C9: an ExplicitKeys over a collection C is a read-through view of C:
\* iteration yields the elements of C in the order of C, duplicates
\* included, the length is the length of C, k is contained exactly when it
\* equals an element of C, and no read changes C.
C9_View ==
    IsExplicitKeys
        => /\ obj._key_collection = supplied.items
           /\ call.op = "ExplicitKeys.__iter__"
                 => result.value = supplied.items
           /\ call.op = "ExplicitKeys.__len__"
                 => result.value = Len(supplied.items)
           /\ call.op = "ExplicitKeys.__contains__"
                 => (result.value <=> ElementOf(call.arg, supplied.items))

C9_ReadThroughView ==
    /\ []C9_View
    /\ [][(IsExplicitKeys /\ call.op # "none")
              => (supplied' = supplied /\ obj' = obj)]_vars

C9_Witness ==
    /\ IsExplicitKeys
    /\ supplied.items = <<foo, bar, foo>>
    /\ call.op = "ExplicitKeys.__iter__"
    /\ result.value = <<foo, bar, foo>>

\* C10: constructing an ExplicitKeys from an object that is no sized,
\* iterable, containment-testable collection fails at the construction (the
\* assertion of the constructor fails) and no object is made.
C10_ConstructionRejectsNonCollections ==
    (call.op = "ExplicitKeys" /\ ~isinstance_Collection(supplied))
        => /\ result.kind = "raise"
           /\ result.value = "AssertionError"
           /\ obj = NoObject

C10_Witness ==
    /\ call.op = "ExplicitKeys"
    /\ supplied.caps = {"__iter__"}
    /\ supplied.items # <<>>
    /\ result.kind = "raise"
    /\ obj = NoObject

====
